---- MODULE Spec2Model ----
(***************************************************************************)
(* Model of the CloseCaption App component (src/App.tsx): the capture      *)
(* lifecycle (startCapture / stopCapture and their suspension points), the *)
(* live-session callbacks (onopen, onmessage, onerror, onclose), the audio *)
(* block callback and the transcript fold.                                 *)
(*                                                                         *)
(* The runtime is the browser event loop: every action below is one task   *)
(* (a user click, a device/network/audio event).  Continuations of `await` *)
(* and `.then` are microtasks: they are queued in `microtasks` and run, in *)
(* FIFO order, before any further task is taken.                           *)
(***************************************************************************)
EXTENDS Integers, Sequences, FiniteSets, TLC

\* ---- bounds of the model --------------------------------------------------
MaxStarts == 2      \* startCapture invocations
MaxStops  == 2      \* stopCapture invocations (user clicks and onerror)
MaxMsgs   == 3      \* server messages delivered
MaxBlocks == 2      \* audio blocks delivered to onaudioprocess
MaxPcmBlocks == 2   \* audio blocks delivered while the samples are varied
MaxSigStarts == 2   \* startCapture invocations while signals and messages mix
MaxSigStops == 1    \* stopCapture invocations while signals and messages mix
MaxSigMsgs == 2     \* server messages while signals and messages mix
SampleSteps == 16   \* a sample is n / SampleSteps, n in -SampleSteps..SampleSteps
MaxTextStarts == 1  \* startCapture invocations while the transcript is followed
MaxTextStops  == 1  \* stopCapture invocations while the transcript is followed

NULL == 0           \* a ref that holds null

VARIABLES
    isCapturing,        \* useState(false)
    transcripts,        \* useState<string[]>([])     finalized lines
    currentTranscript,  \* useState('')               current line
    error,              \* useState<string|null>(null)
    sessionPromiseRef,  \* useRef: id of the session whose promise is held, or NULL
    audioContextRef,    \* useRef: id of an AudioContext, or NULL
    streamRef,          \* useRef: id of a MediaStream, or NULL
    scriptProcessorRef, \* useRef: id of a ScriptProcessorNode, or NULL
    streams,            \* MediaStreams created by getUserMedia: "live" | "stopped"
    contexts,           \* AudioContexts created: "running" | "closing" | "closed"
    sessions,           \* live sessions created by ai.live.connect
    processors,         \* ScriptProcessorNodes created by onopen
    starts,             \* startCapture invocations: "gum" | "done" | "failed"
    stops,              \* stopCapture invocations
    microtasks,         \* queued continuations (await / then)
    blocks,             \* audio blocks delivered so far (log)
    msgCount,           \* server messages delivered so far
    turnDeltas,         \* text fields handled since the current line was last reset
    lastMsg             \* the server message handled last

vars == <<isCapturing, transcripts, currentTranscript, error,
          sessionPromiseRef, audioContextRef, streamRef, scriptProcessorRef,
          streams, contexts, sessions, processors, starts, stops,
          microtasks, blocks, msgCount, turnDeltas, lastMsg>>

reactVars == <<isCapturing, transcripts, currentTranscript, error>>
textVars  == <<transcripts, currentTranscript, turnDeltas, msgCount, lastMsg>>
refVars   == <<sessionPromiseRef, audioContextRef, streamRef, scriptProcessorRef>>
devVars   == <<streams, contexts, processors>>

\* ---- strings ---------------------------------------------------------------
\* A string is a sequence of one-character strings.
IsSpace(c) == c = " "

RECURSIVE TrimStart(_)
TrimStart(s) ==
    IF s = <<>> THEN <<>>
    ELSE IF IsSpace(Head(s)) THEN TrimStart(Tail(s)) ELSE s

RECURSIVE TrimEnd(_)
TrimEnd(s) ==
    IF s = <<>> THEN <<>>
    ELSE IF IsSpace(s[Len(s)]) THEN TrimEnd(SubSeq(s, 1, Len(s) - 1)) ELSE s

\* String.prototype.trim
Trim(s) == TrimEnd(TrimStart(s))

\* The text field of an inputTranscription: a string, or undefined.
Str(s)    == [defined |-> TRUE, s |-> s]
Undefined == [defined |-> FALSE, s |-> <<>>]

\* `prev + text`: string concatenation converts undefined to "undefined".
StringOf(t) ==
    IF t.defined THEN t.s ELSE <<"u", "n", "d", "e", "f", "i", "n", "e", "d">>

RECURSIVE Concat(_)
Concat(ts) == IF ts = <<>> THEN <<>> ELSE StringOf(Head(ts)) \o Concat(Tail(ts))

\* ---- messages --------------------------------------------------------------
Texts == {Str(<<"a">>), Str(<<" ">>), Str(<<" ", "b", " ">>), Undefined}

\* LiveServerMessage.serverContent: inputTranscription present or not, its
\* text, and the turnComplete flag.
Messages ==
    [hasDelta : {TRUE}, text : Texts, turnComplete : BOOLEAN]
    \cup [hasDelta : {FALSE}, text : {Undefined}, turnComplete : BOOLEAN]

NoError  == "null"   \* the error state holding null
NoMessage == [hasDelta |-> FALSE, text |-> Undefined, turnComplete |-> FALSE]

\* The messages of a plain dictation: a delta "a", with or without
\* turnComplete, and a turnComplete on its own.
SignalMessages ==
    {m \in Messages : m.hasDelta => m.text = Str(<<"a">>)} \ {NoMessage}

ErrorApi == "An API error occurred. Please try again."
ErrorMic == "Could not access microphone. Please grant permission and try again."


\* ---- records of the environment -------------------------------------------
\* A session created by ai.live.connect: the state of the promise connect
\* returned, the state of its transport, the continuations waiting on the
\* promise, and what the program did with the session object.
NewSession ==
    [start      |-> NULL,          \* the startCapture invocation that connected it
     promise    |-> "pending",     \* "pending" | "resolved" | "rejected"
     transport  |-> "connecting",  \* "connecting" | "open" | "closed"
     waiters    |-> <<>>,          \* continuations registered while pending
     closeCalls |-> 0,             \* invocations of session.close()
     sent       |-> <<>>,          \* blocks passed to sendRealtimeInput, in order
     sentAfterClose |-> FALSE]     \* a send was invoked after close()

\* Continuations.
StopAfterSession(k) == [kind |-> "stopAfterSession", id |-> k]
StopAfterClose(k)   == [kind |-> "stopAfterClose", id |-> k]
SendBlock(b, s)     == [kind |-> "send", id |-> b, session |-> s]

\* A stopCapture invocation.
NewStop(by) ==
    [pc   |-> "run",      \* "awaitSession" | "awaitClose" | "done" | "threw"
     by   |-> by,         \* "user" | "onerror"
     p    |-> NULL,       \* the session whose promise it awaits
     ctx  |-> NULL,       \* the context whose close() it awaits
     log  |-> <<>>]       \* the release steps it performed, in order

Init ==
    /\ isCapturing = FALSE
    /\ transcripts = <<>>
    /\ currentTranscript = <<>>
    /\ error = NoError
    /\ sessionPromiseRef = NULL
    /\ audioContextRef = NULL
    /\ streamRef = NULL
    /\ scriptProcessorRef = NULL
    /\ streams = <<>>
    /\ contexts = <<>>
    /\ sessions = <<>>
    /\ processors = <<>>
    /\ starts = <<>>
    /\ stops = <<>>
    /\ microtasks = <<>>
    /\ blocks = <<>>
    /\ msgCount = 0
    /\ turnDeltas = <<>>
    /\ lastMsg = NoMessage

\* A task is taken only when the microtask queue has been drained.
Idle == microtasks = <<>>

\* ---- startCapture ----------------------------------------------------------
\* The Start button is rendered only while isCapturing is false.  The call
\* resets the observable state and suspends on getUserMedia.
\* A startCapture that keeps the finalized lines of the capture before.
StartCaptureKeepsLines ==
    /\ Idle
    /\ ~isCapturing
    /\ Len(starts) < MaxStarts
    /\ currentTranscript' = <<>>
    /\ error' = NoError
    /\ isCapturing' = TRUE
    /\ turnDeltas' = <<>>
    /\ starts' = Append(starts, "gum")
    /\ UNCHANGED <<transcripts, refVars, devVars, sessions, stops, microtasks,
                   blocks, msgCount, lastMsg>>

StartCapture ==
    /\ Idle
    /\ ~isCapturing
    /\ Len(starts) < MaxStarts
    /\ transcripts' = <<>>
    /\ currentTranscript' = <<>>
    /\ error' = NoError
    /\ isCapturing' = TRUE
    /\ turnDeltas' = <<>>
    /\ starts' = Append(starts, "gum")
    /\ UNCHANGED <<refVars, devVars, sessions, stops, microtasks, blocks, msgCount, lastMsg>>

\* The catch block of startCapture.
StartCatch(k) ==
    /\ error' = ErrorMic
    /\ isCapturing' = FALSE
    /\ starts' = [starts EXCEPT ![k] = "failed"]

\* getUserMedia rejects: microphone denied or unavailable.
GetUserMediaRejects(k) ==
    /\ Idle
    /\ starts[k] = "gum"
    /\ StartCatch(k)
    /\ UNCHANGED <<textVars, refVars, devVars, sessions, stops, microtasks, blocks>>

\* getUserMedia resolves with a new live stream, but constructing GoogleGenAI
\* or the AudioContext throws: the stream has been stored, nothing else.
GetUserMediaThenThrow(k) ==
    /\ Idle
    /\ starts[k] = "gum"
    /\ streams' = Append(streams, "live")
    /\ streamRef' = Len(streams) + 1
    /\ StartCatch(k)
    /\ UNCHANGED <<textVars, sessionPromiseRef, audioContextRef, scriptProcessorRef,
                   contexts, processors, sessions, stops, microtasks, blocks>>

\* getUserMedia resolves and the rest of the try block runs: the stream, a
\* new AudioContext and the promise of a new session are stored in the refs.
GetUserMediaResolves(k) ==
    /\ Idle
    /\ starts[k] = "gum"
    /\ streams' = Append(streams, "live")
    /\ streamRef' = Len(streams) + 1
    /\ contexts' = Append(contexts, "running")
    /\ audioContextRef' = Len(contexts) + 1
    /\ sessions' = Append(sessions, [NewSession EXCEPT !.start = k])
    /\ sessionPromiseRef' = Len(sessions) + 1
    /\ starts' = [starts EXCEPT ![k] = "done"]
    /\ UNCHANGED <<reactVars, turnDeltas, msgCount, lastMsg, scriptProcessorRef, processors,
                   stops, microtasks, blocks>>


\* ---- stopCapture -----------------------------------------------------------
SetStop(k, rec) ==
    IF k = Len(stops) + 1 THEN Append(stops, rec) ELSE [stops EXCEPT ![k] = rec]

\* A release that closes the context before it stops the tracks.
StopReleaseContextFirst(k, st, rejects) ==
    LET closes == audioContextRef # NULL /\ contexts[audioContextRef] # "closed"
        fails  == closes /\ contexts[audioContextRef] = "closing" /\ rejects
        log1   == IF closes THEN Append(st.log, "contextClose") ELSE st.log
        log2   == IF streamRef # NULL /\ ~fails THEN Append(log1, "tracksStop") ELSE log1
        log3   == IF scriptProcessorRef # NULL /\ ~fails
                  THEN Append(log2, "disconnect") ELSE log2
        pc     == IF fails THEN "threw" ELSE IF closes THEN "awaitClose" ELSE "done"
    IN  /\ streams' = IF streamRef # NULL /\ ~fails
                      THEN [streams EXCEPT ![streamRef] = "stopped"] ELSE streams
        /\ streamRef' = IF fails THEN streamRef ELSE NULL
        /\ processors' = IF scriptProcessorRef # NULL /\ ~fails
                         THEN [processors EXCEPT ![scriptProcessorRef].connected = FALSE]
                         ELSE processors
        /\ scriptProcessorRef' = IF fails THEN scriptProcessorRef ELSE NULL
        /\ contexts' = IF closes /\ contexts[audioContextRef] = "running"
                       THEN [contexts EXCEPT ![audioContextRef] = "closing"]
                       ELSE contexts
        /\ UNCHANGED audioContextRef
        /\ stops' = SetStop(k, [st EXCEPT !.pc = pc, !.log = log3,
                                   !.ctx = IF pc = "awaitClose" THEN audioContextRef ELSE NULL])

\* A release that calls getTracks() without testing streamRef.current: with
\* no stream it throws a TypeError out of stopCapture.
StopReleaseUnguarded(k, st, rejects) ==
    LET closes == audioContextRef # NULL /\ contexts[audioContextRef] # "closed"
        fails  == closes /\ contexts[audioContextRef] = "closing" /\ rejects
        log1   == Append(st.log, "tracksStop")
        log2   == IF scriptProcessorRef # NULL THEN Append(log1, "disconnect") ELSE log1
        log3   == IF closes THEN Append(log2, "contextClose") ELSE log2
        pc     == IF fails THEN "threw" ELSE IF closes THEN "awaitClose" ELSE "done"
    IN  IF streamRef = NULL
        THEN /\ stops' = SetStop(k, [st EXCEPT !.pc = "threw", !.log = log1])
             /\ UNCHANGED <<streams, streamRef, processors, scriptProcessorRef,
                            contexts, audioContextRef>>
        ELSE /\ streams' = [streams EXCEPT ![streamRef] = "stopped"]
             /\ streamRef' = NULL
             /\ processors' = IF scriptProcessorRef # NULL
                              THEN [processors EXCEPT ![scriptProcessorRef].connected = FALSE]
                              ELSE processors
             /\ scriptProcessorRef' = NULL
             /\ contexts' = IF closes /\ contexts[audioContextRef] = "running"
                            THEN [contexts EXCEPT ![audioContextRef] = "closing"]
                            ELSE contexts
             /\ UNCHANGED audioContextRef
             /\ stops' = SetStop(k, [st EXCEPT !.pc = pc, !.log = log3,
                                   !.ctx = IF pc = "awaitClose" THEN audioContextRef ELSE NULL])

\* A context is "closing" from the call of close() until the promise close()
\* returned resolves; only then does its state read 'closed'.
\* stopCapture from `if (streamRef.current)` to its end.  st is the
\* invocation's record so far; rejects: whether close() on a context that is
\* already closing rejects (the await then throws out of stopCapture).
StopRelease(k, st, rejects) ==
    LET closes == audioContextRef # NULL /\ contexts[audioContextRef] # "closed"
        fails  == closes /\ contexts[audioContextRef] = "closing" /\ rejects
        log1   == IF streamRef # NULL THEN Append(st.log, "tracksStop") ELSE st.log
        log2   == IF scriptProcessorRef # NULL THEN Append(log1, "disconnect") ELSE log1
        log3   == IF closes THEN Append(log2, "contextClose") ELSE log2
        pc     == IF fails THEN "threw" ELSE IF closes THEN "awaitClose" ELSE "done"
    IN  /\ streams' = IF streamRef # NULL
                      THEN [streams EXCEPT ![streamRef] = "stopped"] ELSE streams
        /\ streamRef' = NULL
        /\ processors' = IF scriptProcessorRef # NULL
                         THEN [processors EXCEPT ![scriptProcessorRef].connected = FALSE]
                         ELSE processors
        /\ scriptProcessorRef' = NULL
        /\ contexts' = IF closes /\ contexts[audioContextRef] = "running"
                       THEN [contexts EXCEPT ![audioContextRef] = "closing"]
                       ELSE contexts
        /\ UNCHANGED audioContextRef
        /\ stops' = SetStop(k, [st EXCEPT !.pc = pc, !.log = log3,
                                   !.ctx = IF pc = "awaitClose" THEN audioContextRef ELSE NULL])

\* A promise that runs its continuations last-registered-first.
AwaitNewestFirst(env, s, task) ==
    IF env[s].promise = "pending"
    THEN /\ sessions' = [env EXCEPT ![s].waiters = <<task>> \o @]
         /\ UNCHANGED microtasks
    ELSE /\ microtasks' = <<task>> \o microtasks
         /\ sessions' = env

\* `await p` / `p.then(f)` on the promise of session s: the continuation
\* waits on a pending promise, and is queued as a microtask when the promise
\* is already settled.  env is the sessions as the environment has them now.
Await(env, s, task) ==
    IF env[s].promise = "pending"
    THEN /\ sessions' = [env EXCEPT ![s].waiters = Append(@, task)]
         /\ UNCHANGED microtasks
    ELSE /\ microtasks' = Append(microtasks, task)
         /\ sessions' = env

\* stopCapture from its call to its first suspension (or to its end when
\* there is no session promise).  It leaves `error` and the transcript alone.
StopCaptureCall(by, env) ==
    LET k == Len(stops) + 1 IN
    /\ Len(stops) < MaxStops
    /\ isCapturing' = FALSE
    /\ IF sessionPromiseRef # NULL
       THEN /\ Await(env, sessionPromiseRef, StopAfterSession(k))
            /\ stops' = Append(stops, [NewStop(by) EXCEPT
                                          !.pc = "awaitSession",
                                          !.p = sessionPromiseRef,
                                          !.log = <<"sessionAwait">>])
            /\ UNCHANGED <<refVars, devVars>>
       ELSE /\ \E rejects \in BOOLEAN : StopRelease(k, NewStop(by), rejects)
            /\ sessions' = env
            /\ UNCHANGED <<sessionPromiseRef, microtasks>>

\* A Stop button that also finalizes the line in progress.
StopCaptureFlushes ==
    /\ Idle
    /\ isCapturing
    /\ StopCaptureCall("user", sessions)
    /\ transcripts' = IF Trim(currentTranscript) # <<>>
                      THEN Append(transcripts, Trim(currentTranscript))
                      ELSE transcripts
    /\ currentTranscript' = <<>>
    /\ UNCHANGED <<turnDeltas, msgCount, lastMsg, error, starts, blocks>>

\* The Stop button is rendered only while isCapturing is true.
StopCapture ==
    /\ Idle
    /\ isCapturing
    /\ StopCaptureCall("user", sessions)
    /\ UNCHANGED <<textVars, error, starts, blocks>>

\* stopCapture resumes after `await sessionPromiseRef.current`: it calls
\* session.close(), or lands in the catch block when the promise rejected,
\* clears sessionPromiseRef and goes on to release the devices.  (A close()
\* that throws lands in the same catch block, which only logs: the step is
\* the same whether it throws or not.)
StopAfterSessionRuns ==
    /\ microtasks # <<>>
    /\ Head(microtasks).kind = "stopAfterSession"
    /\ LET k  == Head(microtasks).id
           s  == stops[k].p
           ok == sessions[s].promise = "resolved"
       IN  /\ \E rejects \in BOOLEAN :
                 StopRelease(k,
                     [stops[k] EXCEPT !.log = Append(@,
                          IF ok THEN "sessionClose" ELSE "sessionRejected")],
                     rejects)
           /\ sessions' = IF ok THEN [sessions EXCEPT ![s].closeCalls = @ + 1]
                          ELSE sessions
           /\ sessionPromiseRef' = NULL
    /\ microtasks' = Tail(microtasks)
    /\ UNCHANGED <<reactVars, turnDeltas, msgCount, lastMsg, starts, blocks>>

\* stopCapture resumes after `await audioContextRef.current.close()`.
StopAfterCloseRuns ==
    /\ microtasks # <<>>
    /\ Head(microtasks).kind = "stopAfterClose"
    /\ LET k == Head(microtasks).id IN
           /\ audioContextRef' = NULL
           /\ stops' = [stops EXCEPT ![k].pc = "done"]
    /\ microtasks' = Tail(microtasks)
    /\ UNCHANGED <<reactVars, turnDeltas, msgCount, lastMsg, sessionPromiseRef, streamRef,
                   scriptProcessorRef, devVars, sessions, starts, blocks>>

\* The close() of a context completes: its state becomes "closed" and the
\* stopCapture invocations awaiting it resume.
RECURSIVE Awaiting(_, _)
Awaiting(c, k) ==
    IF k > Len(stops) THEN <<>>
    ELSE (IF stops[k].pc = "awaitClose" /\ stops[k].ctx = c
          THEN <<StopAfterClose(k)>> ELSE <<>>) \o Awaiting(c, k + 1)

ContextCloses(c) ==
    /\ Idle
    /\ contexts[c] = "closing"
    /\ contexts' = [contexts EXCEPT ![c] = "closed"]
    /\ microtasks' = Awaiting(c, 1)
    /\ UNCHANGED <<reactVars, turnDeltas, msgCount, lastMsg, refVars, streams, processors,
                   sessions, starts, stops, blocks>>


\* ---- session callbacks -----------------------------------------------------
\* onopen: wires the microphone through a new block processor, unless the
\* context or the stream is gone.
OnOpen(s) ==
    IF audioContextRef # NULL /\ streamRef # NULL
    THEN /\ processors' = Append(processors,
                [ctx |-> audioContextRef, connected |-> TRUE])
         /\ scriptProcessorRef' = Len(processors) + 1
    ELSE UNCHANGED <<processors, scriptProcessorRef>>

\* The transport of session s opens: connect calls onopen and then resolves
\* the promise it returned; the continuations waiting on it are queued.
SessionOpens(s) ==
    /\ Idle
    /\ sessions[s].promise = "pending"
    /\ sessions[s].transport = "connecting"
    /\ OnOpen(s)
    /\ sessions' = [sessions EXCEPT ![s].promise = "resolved",
                                    ![s].transport = "open",
                                    ![s].waiters = <<>>]
    /\ microtasks' = sessions[s].waiters
    /\ UNCHANGED <<reactVars, turnDeltas, msgCount, lastMsg, sessionPromiseRef, audioContextRef,
                   streamRef, streams, contexts, starts, stops, blocks>>

IsStopTask(t) == t.kind = "stopAfterSession"

\* connect fails: the promise rejects.  An `await` on it throws into its
\* catch block; a `.then(f)` on it never calls f.
SessionRejects(s) ==
    /\ Idle
    /\ sessions[s].promise = "pending"
    /\ sessions[s].transport = "connecting"
    /\ sessions' = [sessions EXCEPT ![s].promise = "rejected",
                                    ![s].transport = "closed",
                                    ![s].waiters = <<>>]
    /\ microtasks' = SelectSeq(sessions[s].waiters, IsStopTask)
    /\ UNCHANGED <<reactVars, turnDeltas, msgCount, lastMsg, refVars, devVars, starts, stops, blocks>>

\* A delta handler that normalises the text before appending it.
ApplyDeltaNormalised(cur, m) ==
    IF m.hasDelta THEN cur \o Trim(StringOf(m.text)) ELSE cur

\* setCurrentTranscript(prev => prev + text)
ApplyDelta(cur, m) == IF m.hasDelta THEN cur \o StringOf(m.text) ELSE cur

\* A turnComplete updater that appends the trimmed line without testing it.
ApplyTurnUnchecked(hist, cur) == <<Append(hist, Trim(cur)), <<>>>>

\* The turnComplete updater: [finalized lines, current line] afterwards.
ApplyTurn(hist, cur) ==
    <<IF Trim(cur) # <<>> THEN Append(hist, Trim(cur)) ELSE hist, <<>>>>

\* An onmessage that handles the turn boundary before the delta.
HandleMessageTurnFirst(hist, cur, m) ==
    IF m.turnComplete THEN <<ApplyTurn(hist, cur)[1], ApplyDelta(<<>>, m)>>
    ELSE <<hist, ApplyDelta(cur, m)>>

\* onmessage, on a state <<finalized lines, current line>>.
HandleMessage(hist, cur, m) ==
    IF m.turnComplete THEN ApplyTurn(hist, ApplyDelta(cur, m))
    ELSE <<hist, ApplyDelta(cur, m)>>

OnMessage(s, m) ==
    /\ Idle
    /\ sessions[s].transport = "open"
    /\ msgCount < MaxMsgs
    /\ lastMsg' = m
    /\ transcripts' = HandleMessage(transcripts, currentTranscript, m)[1]
    /\ currentTranscript' = HandleMessage(transcripts, currentTranscript, m)[2]
    /\ msgCount' = msgCount + 1
    /\ turnDeltas' = IF m.turnComplete THEN <<>>
                     ELSE IF m.hasDelta THEN Append(turnDeltas, m.text) ELSE turnDeltas
    /\ UNCHANGED <<isCapturing, error, refVars, devVars, sessions, starts, stops,
                   microtasks, blocks>>

\* The transport of session s fails, while connecting or once open: the
\* socket fires error and then close in one task.  onerror surfaces the
\* message and calls stopCapture; onclose does nothing.  A transport that
\* failed while connecting never opens: the promise stays pending.
OnError(s) ==
    /\ Idle
    /\ sessions[s].transport \in {"connecting", "open"}
    /\ error' = ErrorApi
    /\ StopCaptureCall("onerror", [sessions EXCEPT ![s].transport = "closed"])
    /\ UNCHANGED <<textVars, starts, blocks>>

\* An onclose that clears the finalized lines.
OnCloseClears(s) ==
    /\ Idle
    /\ sessions[s].transport = "open"
    /\ sessions' = [sessions EXCEPT ![s].transport = "closed"]
    /\ transcripts' = <<>>
    /\ UNCHANGED <<isCapturing, currentTranscript, error, turnDeltas, msgCount, lastMsg,
                   refVars, devVars, starts, stops, microtasks, blocks>>

\* The open transport of session s is closed by the peer, or the close that
\* session.close() asked for completes: onclose does nothing.
OnClose(s) ==
    /\ Idle
    /\ sessions[s].transport = "open"
    /\ sessions' = [sessions EXCEPT ![s].transport = "closed"]
    /\ UNCHANGED <<reactVars, turnDeltas, msgCount, lastMsg, refVars, devVars, starts, stops,
                   microtasks, blocks>>

\* ---- audio blocks ----------------------------------------------------------
\* A Float32 sample in [-1, 1] is the integer n that stands for
\* n / SampleSteps; a block is modelled by one sample of its 4096.
Samples == (0 - SampleSteps)..SampleSteps
Frames == {<<n>> : n \in Samples}
Silence == <<0>>

\* The integer part of a / d, rounded toward zero (d > 0).
TruncDiv(a, d) == IF a >= 0 THEN a \div d ELSE 0 - ((0 - a) \div d)

\* A scaling by 32768 on both sides of zero.
ScaleSymmetric(n) == TruncDiv(n * 32768, SampleSteps)

\* data[i] < 0 ? data[i] * 32768 : data[i] * 32767, with the fraction
\* dropped as storing into an Int16Array drops it.
Scale(n) ==
    IF n < 0 THEN TruncDiv(n * 32768, SampleSteps)
    ELSE TruncDiv(n * 32767, SampleSteps)

\* What an Int16Array element holds after `int16[i] = x`: x modulo 2^16,
\* read as a signed 16-bit integer.
ToInt16(x) ==
    LET m == x % 65536 IN IF m >= 32768 THEN m - 65536 ELSE m

\* The Int16Array createBlob fills from a block.
Int16Of(frame) == [i \in 1..Len(frame) |-> ToInt16(Scale(frame[i]))]

\* new Uint8Array(int16.buffer): two bytes per element, low byte first.
RECURSIVE Bytes(_)
Bytes(int16) ==
    IF int16 = <<>> THEN <<>>
    ELSE LET u == Head(int16) % 65536
         IN  <<u % 256, u \div 256>> \o Bytes(Tail(int16))

\* encode: btoa of the bytes.  A base64 character is written as its index in
\* the base64 alphabet, and the padding character as 64.
RECURSIVE encode(_)
encode(bytes) ==
    IF bytes = <<>> THEN <<>>
    ELSE IF Len(bytes) = 1
    THEN <<bytes[1] \div 4, (bytes[1] % 4) * 16, 64, 64>>
    ELSE IF Len(bytes) = 2
    THEN <<bytes[1] \div 4, (bytes[1] % 4) * 16 + bytes[2] \div 16,
           (bytes[2] % 16) * 4, 64>>
    ELSE <<bytes[1] \div 4, (bytes[1] % 4) * 16 + bytes[2] \div 16,
           (bytes[2] % 16) * 4 + bytes[3] \div 64, bytes[3] % 64>>
         \o encode(SubSeq(bytes, 4, Len(bytes)))

createBlob(frame) ==
    [data |-> encode(Bytes(Int16Of(frame))), mimeType |-> "audio/pcm;rate=16000"]

\* A block callback that sends only when the session is already there.
ThenSendIfReady(s, b) ==
    IF s # NULL /\ sessions[s].promise = "resolved"
    THEN Await(sessions, s, SendBlock(b, s))
    ELSE UNCHANGED <<sessions, microtasks>>

\* sessionPromiseRef.current?.then(session => session.sendRealtimeInput(..)):
\* nothing when the ref is null; on a rejected promise the callback is never
\* called.
ThenSend(s, b) ==
    IF s = NULL
    THEN UNCHANGED <<sessions, microtasks>>
    ELSE IF sessions[s].promise = "rejected"
    THEN UNCHANGED <<sessions, microtasks>>
    ELSE Await(sessions, s, SendBlock(b, s))

\* onaudioprocess of processor p: the block is encoded and
\* sessionPromiseRef.current?.then(send) is evaluated.
OnAudioProcess(p, frame) ==
    LET b == Len(blocks) + 1
        s == sessionPromiseRef
    IN  /\ Idle
        /\ processors[p].connected
        /\ contexts[processors[p].ctx] = "running"
        /\ Len(blocks) < MaxBlocks
        /\ blocks' = Append(blocks,
                [capturing |-> isCapturing, target |-> s,
                 deferred |-> s # NULL /\ sessions[s].promise = "pending",
                 frame |-> frame, int16 |-> Int16Of(frame),
                 pcmBlob |-> createBlob(frame)])
        /\ ThenSend(s, b)
        /\ UNCHANGED <<reactVars, turnDeltas, msgCount, lastMsg, refVars, devVars, starts, stops>>

\* The callback of `.then`: session.sendRealtimeInput({ media: pcmBlob }).
SendRuns ==
    /\ microtasks # <<>>
    /\ Head(microtasks).kind = "send"
    /\ LET b == Head(microtasks).id
           s == Head(microtasks).session
       IN  /\ sessions' = [sessions EXCEPT
                             ![s].sent = Append(@, b),
                             ![s].sentAfterClose = @ \/ sessions[s].closeCalls > 0]
    /\ microtasks' = Tail(microtasks)
    /\ UNCHANGED <<reactVars, turnDeltas, msgCount, lastMsg, refVars, devVars, starts, stops, blocks>>

\* ---- specifications --------------------------------------------------------
\* The capture lifecycle: the user's clicks, the device, the session's
\* connection and its error and close callbacks, and every continuation of
\* startCapture and stopCapture.
Next ==
    \/ StartCapture
    \/ \E k \in 1..Len(starts) : GetUserMediaRejects(k)
    \/ \E k \in 1..Len(starts) : GetUserMediaThenThrow(k)
    \/ \E k \in 1..Len(starts) : GetUserMediaResolves(k)
    \/ StopCapture
    \/ StopAfterSessionRuns
    \/ StopAfterCloseRuns
    \/ \E c \in 1..Len(contexts) : ContextCloses(c)
    \/ \E s \in 1..Len(sessions) : SessionOpens(s)
    \/ \E s \in 1..Len(sessions) : SessionRejects(s)
    \/ \E s \in 1..Len(sessions) : OnError(s)
    \/ \E s \in 1..Len(sessions) : OnClose(s)

Spec == Init /\ [][Next]_vars

\* The audio path: captures are started and stopped by the user while the
\* block processors deliver audio blocks.
NextAudio ==
    \/ StartCapture
    \/ \E k \in 1..Len(starts) : GetUserMediaResolves(k)
    \/ StopCapture
    \/ StopAfterSessionRuns
    \/ StopAfterCloseRuns
    \/ \E c \in 1..Len(contexts) : ContextCloses(c)
    \/ \E s \in 1..Len(sessions) : SessionOpens(s)
    \/ \E s \in 1..Len(sessions) : SessionRejects(s)
    \/ \E p \in 1..Len(processors) : OnAudioProcess(p, Silence)
    \/ SendRuns

SpecAudio == Init /\ [][NextAudio]_vars

\* The encoding: one capture is started and opened, and its block processor
\* delivers blocks of every sample value.
NextPcm ==
    \/ StartCapture
    \/ \E k \in 1..Len(starts) : GetUserMediaResolves(k)
    \/ \E s \in 1..Len(sessions) : SessionOpens(s)
    \/ \E p \in 1..Len(processors), frame \in Frames :
            Len(blocks) < MaxPcmBlocks /\ OnAudioProcess(p, frame)
    \/ SendRuns

SpecPcm == Init /\ [][NextPcm]_vars

\* The transcript: captures are started by the user, opened, fed server
\* messages and stopped by the user.
NextText ==
    \/ Len(starts) < MaxTextStarts /\ StartCapture
    \/ \E k \in 1..Len(starts) : GetUserMediaResolves(k)
    \/ \E s \in 1..Len(sessions) : SessionOpens(s)
    \/ \E s \in 1..Len(sessions), m \in Messages : OnMessage(s, m)
    \/ Len(stops) < MaxTextStops /\ StopCapture
    \/ StopAfterSessionRuns
    \/ StopAfterCloseRuns
    \/ \E c \in 1..Len(contexts) : ContextCloses(c)

SpecText == Init /\ [][NextText]_vars

\* Messages and lifecycle signals together: captures are started, opened,
\* fed server messages, stopped by the user or by onerror, closed, and
\* started again.
NextSignals ==
    \/ Len(starts) < MaxSigStarts /\ StartCapture
    \/ \E k \in 1..Len(starts) : GetUserMediaResolves(k)
    \/ \E s \in 1..Len(sessions) : SessionOpens(s)
    \/ \E s \in 1..Len(sessions), m \in SignalMessages :
            msgCount < MaxSigMsgs /\ OnMessage(s, m)
    \/ Len(stops) < MaxSigStops /\ StopCapture
    \/ StopAfterSessionRuns
    \/ StopAfterCloseRuns
    \/ \E c \in 1..Len(contexts) : ContextCloses(c)
    \/ \E s \in 1..Len(sessions) : Len(stops) < MaxSigStops /\ OnError(s)
    \/ \E s \in 1..Len(sessions) : OnClose(s)

SpecSignals == Init /\ [][NextSignals]_vars

\* ---- claims ------------------------------------------------------------------
\* The texts of a sequence of deltas, concatenated verbatim in arrival order.
RECURSIVE Verbatim(_)
Verbatim(ds) == IF ds = <<>> THEN <<>> ELSE Head(ds).s \o Verbatim(Tail(ds))

AllDefined(ds) == \A i \in 1..Len(ds) : ds[i].defined

\* The step handles a server message.
MessageStep == msgCount' = msgCount + 1

\* C1: starting from an empty current line, handling the deltas d1..dn
\* (turnDeltas) and then one turnComplete leaves the finalized sequence equal
\* to the one before the turnComplete with exactly trim(d1 + ... + dn)
\* appended when that is non-empty, nothing appended otherwise, and the
\* current line empty.
C1_TranscriptFold ==
    [][(/\ MessageStep
        /\ lastMsg'.turnComplete /\ ~lastMsg'.hasDelta
        /\ AllDefined(turnDeltas))
       => /\ transcripts' =
                IF Trim(Verbatim(turnDeltas)) # <<>>
                THEN Append(transcripts, Trim(Verbatim(turnDeltas)))
                ELSE transcripts
          /\ currentTranscript' = <<>>]_vars

\* Two deltas, "a" and " b ", then turnComplete: one line "a b".
C1_Witness ==
    /\ lastMsg.turnComplete /\ ~lastMsg.hasDelta
    /\ msgCount = 3
    /\ transcripts = << <<"a", " ", "b">> >>
    /\ currentTranscript = <<>>

LiveStreams   == {i \in 1..Len(streams) : streams[i] = "live"}
OpenContexts  == {c \in 1..Len(contexts) : contexts[c] # "closed"}
Suspended(k)  == stops[k].pc \in {"awaitSession", "awaitClose"}
Ended(k)      == stops[k].pc \in {"done", "threw"}

\* C2: in every reachable state at most one microphone stream has un-stopped
\* tracks and at most one audio context is un-closed, and each live one is
\* the one streamRef / audioContextRef refers to.
C2_SingleLiveResources ==
    /\ Cardinality(LiveStreams) <= 1
    /\ Cardinality(OpenContexts) <= 1
    /\ \A i \in LiveStreams : streamRef = i
    /\ \A c \in OpenContexts : audioContextRef = c

\* C3: whenever isCapturing is false and no stopCapture call is suspended
\* (or has a continuation queued), no session that was opened remains
\* un-closed.
C3_NoDanglingSession ==
    (/\ ~isCapturing
     /\ Idle
     /\ \A k \in 1..Len(stops) : ~Suspended(k))
    => \A s \in 1..Len(sessions) :
          sessions[s].promise = "resolved" => sessions[s].closeCalls >= 1

\* C4: once the promise of a session has resolved and the stopCapture
\* invocations that awaited it have resumed, the session's close() has been
\* invoked exactly once, however many invocations awaited it.
C4_CloseExactlyOnce ==
    \A s \in 1..Len(sessions) :
        (/\ sessions[s].promise = "resolved"
         /\ Idle
         /\ \E k \in 1..Len(stops) : stops[k].p = s)
        => sessions[s].closeCalls = 1

\* The place of a release step in an order of steps (0: not one of them).
RECURSIVE Rank(_, _)
Rank(e, order) ==
    IF order = <<>> THEN 0
    ELSE IF e \in Head(order) THEN 1 ELSE
         (IF Rank(e, Tail(order)) = 0 THEN 0 ELSE 1 + Rank(e, Tail(order)))

\* The steps of log are among those of order, and occur in that order.
Follows(log, order) ==
    /\ \A i \in 1..Len(log) : Rank(log[i], order) > 0
    /\ \A i, j \in 1..Len(log) : i < j => Rank(log[i], order) < Rank(log[j], order)

\* C5 as stated: tracks, processor, context, and the session last.
ClaimedOrder ==
    <<{"tracksStop"}, {"disconnect"}, {"contextClose"},
      {"sessionAwait"}, {"sessionClose", "sessionRejected"}>>

\* The order of the code: the session first, then tracks, processor, context.
CodeOrder ==
    <<{"sessionAwait"}, {"sessionClose", "sessionRejected"},
      {"tracksStop"}, {"disconnect"}, {"contextClose"}>>

\* C5 (as stated): every stopCapture stops the tracks, then disconnects the
\* processor, then closes the context, and only then awaits the session.
C5_ClaimedTeardownOrder ==
    \A k \in 1..Len(stops) : Follows(stops[k].log, ClaimedOrder)

\* C5 (amended): every stopCapture first awaits the session promise and
\* calls close() on the session, and only then stops the tracks, disconnects
\* the processor and closes the context, in this order.
C5_TeardownOrder ==
    \A k \in 1..Len(stops) : Follows(stops[k].log, CodeOrder)

\* A stopCapture that had all four resources to release.
C5_Witness ==
    \E k \in 1..Len(stops) :
        stops[k].log = <<"sessionAwait", "sessionClose", "tracksStop",
                         "disconnect", "contextClose">>

\* The four refs are null.
Released(sref, stref, pref, cref) ==
    sref = NULL /\ stref = NULL /\ pref = NULL /\ cref = NULL

\* stopCapture invocation k ends in this step.
Ends(k) ==
    /\ k \in 1..Len(stops')
    /\ stops'[k].pc \in {"done", "threw"}
    /\ k \in 1..Len(stops) => stops[k].pc \notin {"done", "threw"}

\* C6: every onerror callback sets the error and calls stopCapture, after
\* which isCapturing is false; and when the stopCapture it called ends,
\* the session, stream, processor and context refs are all null.
C6_OnErrorStops ==
    [][/\ (Len(stops') = Len(stops) + 1 /\ stops'[Len(stops')].by = "onerror")
          => error' # NoError /\ ~isCapturing'
       /\ \A k \in 1..Len(stops') :
             (Ends(k) /\ stops'[k].by = "onerror")
             => Released(sessionPromiseRef', streamRef', scriptProcessorRef',
                         audioContextRef')]_vars

\* C7: when a startCapture ends in its catch block, isCapturing is false,
\* the error is set, and the call leaves behind no session, no live stream
\* and no open context of its own.
C7_FailedStartIsClean ==
    [][\A k \in 1..Len(starts) :
          (starts[k] = "gum" /\ starts'[k] = "failed")
          => /\ ~isCapturing'
             /\ error' # NoError
             /\ Len(sessions') = Len(sessions)
             /\ \A i \in 1..Len(streams') : i > Len(streams) => streams'[i] # "live"
             /\ \A c \in 1..Len(contexts') : c > Len(contexts) => contexts'[c] = "closed"]_vars

\* C10: no stopCapture ends by throwing, and when one ends the session,
\* stream, processor and context refs are all null.
C10_StopAlwaysCompletes ==
    [][\A k \in 1..Len(stops') :
          Ends(k) => /\ stops'[k].pc = "done"
                     /\ Released(sessionPromiseRef', streamRef', scriptProcessorRef',
                                 audioContextRef')]_vars

\* Block b was delivered while capture was active: isCapturing was true and
\* sessionPromiseRef held a session promise.
Active(b) == blocks[b].capturing /\ blocks[b].target # NULL

InSeq(x, seq) == \E i \in 1..Len(seq) : seq[i] = x

C9_NoSendAfterClose ==
    \A s \in 1..Len(sessions) : ~sessions[s].sentAfterClose

\* The message handled in this step carries turnComplete and no delta.
TurnOnlyStep == MessageStep /\ lastMsg'.turnComplete /\ ~lastMsg'.hasDelta

\* C11: a turnComplete handled while the current line is empty or only
\* whitespace appends nothing and leaves the current line empty; the
\* finalized sequence never holds an empty or whitespace-only entry; and a
\* turnComplete that follows a turnComplete with no delta in between leaves
\* the finalized sequence and the current line unchanged.
C11_EmptyTurnIsNoOp ==
    [][/\ (TurnOnlyStep /\ Trim(currentTranscript) = <<>>)
          => transcripts' = transcripts /\ currentTranscript' = <<>>
       /\ \A i \in 1..Len(transcripts') : Trim(transcripts'[i]) # <<>>
       /\ (TurnOnlyStep /\ lastMsg.turnComplete /\ msgCount > 0)
          => transcripts' = transcripts /\ currentTranscript' = currentTranscript]_vars

\* Two messages were handled, the second a turnComplete with no delta, and
\* nothing was finalized: the turnComplete met an empty or whitespace-only
\* current line (the first message was a turnComplete, a " " delta or
\* carried nothing).
C11_Witness ==
    /\ msgCount = 2
    /\ lastMsg.turnComplete /\ ~lastMsg.hasDelta
    /\ transcripts = <<>>
    /\ currentTranscript = <<>>

\* C13: a message whose inputTranscription has no text leaves the current
\* line and the finalized sequence unchanged.
C13_MissingTextIgnored ==
    [][(/\ MessageStep
        /\ lastMsg'.hasDelta /\ ~lastMsg'.text.defined
        /\ ~lastMsg'.turnComplete)
       => /\ currentTranscript' = currentTranscript
          /\ transcripts' = transcripts]_vars

\* C19: a message that carries a delta and turnComplete finalizes the
\* current line with the delta's text appended, and leaves the current line
\* empty.
C19_DeltaBeforeTurn ==
    [][(/\ MessageStep
        /\ lastMsg'.hasDelta /\ lastMsg'.text.defined
        /\ lastMsg'.turnComplete)
       => /\ transcripts' =
                IF Trim(currentTranscript \o lastMsg'.text.s) # <<>>
                THEN Append(transcripts, Trim(currentTranscript \o lastMsg'.text.s))
                ELSE transcripts
          /\ currentTranscript' = <<>>]_vars

\* The delta "a", then one message with the delta " b " and turnComplete:
\* one line "a b", nothing carried over.
C19_Witness ==
    /\ msgCount = 2
    /\ lastMsg = [hasDelta |-> TRUE, text |-> Str(<<" ", "b", " ">>),
                  turnComplete |-> TRUE]
    /\ transcripts = << <<"a", " ", "b">> >>
    /\ currentTranscript = <<>>

\* C20: the blocks passed to a session's sendRealtimeInput are in the order
\* in which they were delivered to onaudioprocess (blocks are numbered in
\* delivery order), each block is passed at most once and only to the
\* session whose promise its callback read, whether or not its send was
\* deferred until the promise resolved.
C20_SendsInDeliveryOrder ==
    \A s \in 1..Len(sessions) :
        LET sent == sessions[s].sent IN
        /\ \A i \in 1..Len(sent) : blocks[sent[i]].target = s
        /\ \A i, j \in 1..Len(sent) : i < j => sent[i] < sent[j]

\* Two blocks sent to one session, the first of them deferred.
C20_Witness ==
    \E s \in 1..Len(sessions) :
        /\ Len(sessions[s].sent) = 2
        /\ blocks[sessions[s].sent[1]].deferred

\* C16: for every sample s in [-1, 1] of a delivered block, the 16-bit
\* element createBlob stores is the scaled value itself (s * 32768 for
\* s < 0, s * 32767 for s >= 0, fraction dropped), which lies in
\* -32768..32767, so nothing wraps around; 1.0 is stored as 32767 and -1.0
\* as -32768.
C16_ScalingInRange ==
    \A b \in 1..Len(blocks) : \A i \in 1..Len(blocks[b].frame) :
        LET n == blocks[b].frame[i]
            scaled == IF n < 0 THEN 0 - ((0 - n * 32768) \div SampleSteps)
                      ELSE (n * 32767) \div SampleSteps
            stored == blocks[b].int16[i]
        IN  /\ n \in (0 - SampleSteps)..SampleSteps
            /\ stored = scaled
            /\ stored >= 0 - 32768 /\ stored <= 32767
            /\ n = SampleSteps => stored = 32767
            /\ n = 0 - SampleSteps => stored = 0 - 32768

\* A block of sample 1.0 and a block of sample -1.0 were both encoded.
C16_Witness ==
    \E b, c \in 1..Len(blocks) :
        /\ blocks[b].frame = <<SampleSteps>> /\ blocks[b].int16 = <<32767>>
        /\ blocks[c].frame = <<0 - SampleSteps>> /\ blocks[c].int16 = <<0 - 32768>>

\* C15: a stopCapture invoked while the manager holds nothing (no session
\* promise, stream, processor or context: before anything was started, or
\* after an earlier stopCapture completed) ends in that same step without
\* throwing, performs no track-stop, disconnect, context-close or
\* session-close, and leaves every handle null and isCapturing false.
C15_IdleStopIsNoOp ==
    [][(/\ Len(stops') = Len(stops) + 1
        /\ Released(sessionPromiseRef, streamRef, scriptProcessorRef, audioContextRef))
       => /\ stops'[Len(stops')].pc = "done"
          /\ stops'[Len(stops')].log = <<>>
          /\ UNCHANGED <<streams, contexts, processors>>
          /\ \A s \in 1..Len(sessions) :
                sessions'[s].closeCalls = sessions[s].closeCalls
          /\ Released(sessionPromiseRef', streamRef', scriptProcessorRef', audioContextRef')
          /\ ~isCapturing']_vars

\* One capture; its first stopCapture released what was held and completed,
\* and a second stopCapture then ran on the idle manager and did nothing.
C15_Witness ==
    /\ Len(starts) = 1
    /\ Len(stops) = 2
    /\ stops[1].pc = "done" /\ stops[1].log # <<>>
    /\ stops[2].pc = "done" /\ stops[2].log = <<>>

\* A startCapture is invoked in this step.
StartStep == Len(starts') = Len(starts) + 1

\* hist is an initial part of hist2.
IsPrefix(hist, hist2) ==
    /\ Len(hist) <= Len(hist2)
    /\ SubSeq(hist2, 1, Len(hist)) = hist

\* C12: in every step that is not a startCapture (a server message, also one
\* arriving after stopCapture, a stopCapture and its continuations, onerror,
\* onclose), the finalized lines before the step are an initial part of the
\* finalized lines after it; they grow by at most one line, and only in a
\* step that handles a message carrying turnComplete.
C12_FinalizedAppendOnly ==
    [][~StartStep
       => /\ IsPrefix(transcripts, transcripts')
          /\ Len(transcripts') <= Len(transcripts) + 1
          /\ Len(transcripts') > Len(transcripts)
                => MessageStep /\ lastMsg'.turnComplete]_vars

\* Two lines were finalized in one capture, and they are still there after
\* its stopCapture completed and its session closed.
C12_Witness ==
    /\ Len(starts) = 1
    /\ Len(transcripts) = 2
    /\ Len(stops) = 1 /\ stops[1].pc = "done"
    /\ sessions[1].transport = "closed"

\* A stopCapture is invoked in this step, or one resumes after an await.
StopStep ==
    \/ Len(stops') = Len(stops) + 1
    \/ \E k \in 1..Len(stops) : stops'[k] # stops[k]

\* onerror of some session runs in this step.
ErrorStep ==
    /\ Len(stops') = Len(stops) + 1
    /\ stops'[Len(stops')].by = "onerror"

\* The transport of some session closes in this step (onclose).
CloseStep ==
    \E s \in 1..Len(sessions) :
        sessions[s].transport # "closed" /\ sessions'[s].transport = "closed"

\* C14: stopCapture (its call and its continuations), onerror and onclose
\* leave the finalized lines and the current line unchanged, and a
\* stopCapture that onerror did not call leaves the error unchanged as well.
C14_SignalsKeepTranscript ==
    [][/\ (StopStep \/ ErrorStep \/ CloseStep)
          => /\ transcripts' = transcripts
             /\ currentTranscript' = currentTranscript
       /\ (StopStep /\ ~ErrorStep) => error' = error]_vars

\* start, a delta, a turnComplete, stop: the stopCapture has completed, the
\* line is there, the current line is empty and there is no error.
C14_Witness ==
    /\ Len(starts) = 1
    /\ msgCount = 2
    /\ lastMsg.turnComplete /\ ~lastMsg.hasDelta
    /\ Len(stops) = 1 /\ stops[1].by = "user" /\ stops[1].pc = "done"
    /\ transcripts = << <<"a">> >>
    /\ currentTranscript = <<>>
    /\ error = NoError

\* C18: every startCapture invocation leaves, in the step that invokes it,
\* the finalized lines empty, the current line empty, the error null and
\* isCapturing true, whatever they were before.
C18_StartResets ==
    [][StartStep
       => /\ transcripts' = <<>>
          /\ currentTranscript' = <<>>
          /\ error' = NoError
          /\ isCapturing']_vars

\* The second startCapture has just run.  The last message handled finalized
\* a line and onerror set the error; both happened before that startCapture
\* (nothing else clears them), and neither is left.
C18_Witness ==
    /\ Len(starts) = 2 /\ starts[2] = "gum"
    /\ lastMsg.hasDelta /\ lastMsg.turnComplete
    /\ Len(stops) = 1 /\ stops[1].by = "onerror"
    /\ transcripts = <<>>
    /\ currentTranscript = <<>>
    /\ error = NoError
    /\ isCapturing

\* Session s was connected by a startCapture before the latest one.
Earlier(s) == sessions[s].start < Len(starts)

\* C17: a message handled while no session of the latest startCapture is
\* open (so it came from an earlier session) leaves the finalized lines and
\* the current line unchanged, and an onerror of an earlier session leaves
\* the error and isCapturing unchanged.
C17_SessionIsolation ==
    [][/\ (/\ MessageStep
           /\ \A s \in 1..Len(sessions) :
                 sessions[s].transport = "open" => Earlier(s))
          => /\ transcripts' = transcripts
             /\ currentTranscript' = currentTranscript
       /\ \A s \in 1..Len(sessions) :
             (/\ ErrorStep
              /\ sessions[s].transport # "closed"
              /\ sessions'[s].transport = "closed"
              /\ Earlier(s))
             => /\ error' = error
                /\ isCapturing' = isCapturing]_vars

====
